---- MODULE Spec2Model ----
(***************************************************************************)
(* Model of Transaction-Broadcasting/transaction_client.py:                *)
(* TransactionClient's request executor (_request_with_retries over        *)
(* _make_request), check_status, wait_for_finality, broadcast_transaction  *)
(* and broadcast_and_wait, alone and from two threads; and of the two      *)
(* pure functions Superman-chicken/superman.py max_chickens_under_roof and *)
(* bossbaby/bossbaby.py evaluate_day.                                      *)
(*                                                                         *)
(* Time is a discrete monotonic clock.  A network attempt takes            *)
(* 0..MaxAttemptDur ticks, time.sleep(d) takes exactly d ticks, everything *)
(* else takes no time.  Response bodies are sequences of tokens (a token   *)
(* is a word, a blank or a JSON punctuation mark).                         *)
(***************************************************************************)
EXTENDS Integers, Sequences, FiniteSets, TLC

\* ------------------------------------------------------------------ bounds
MaxRetriesBound == 2
MaxBackoff == 1
MaxPoll == 2
MaxWaitBound == 3
MaxAttemptDur == 1
\* The longest list of positions; positions range over -1..MaxPosition and
\* roof_length over -1..MaxRoof; the longest text of one day.
MaxChickens == 4
MaxPosition == 3
MaxRoof == 3
MaxEvents == 5

\* ------------------------------------------------------------ vocabulary
Statuses == {"PENDING", "CONFIRMED", "FAILED", "DNE"}

\* Variant: DNE is not treated as terminal.
terminal_states_without_DNE == {"CONFIRMED", "FAILED"}

terminal_states == {"CONFIRMED", "FAILED", "DNE"}

Q == "\""
SP == " "

\* Python values that _make_request can return: a str (val = its tokens)
\* or a dict with str values (items = key :> tokens).
PyStr(tokens) == [type |-> "str", val |-> tokens, items |-> <<>>]
PyDict(items) == [type |-> "dict", val |-> <<>>, items |-> items]
PyNone == [type |-> "None", val |-> <<>>, items |-> <<>>]

\* str.strip(): drop leading and trailing blanks.
RECURSIVE LStrip(_)
LStrip(s) == IF s # <<>> /\ Head(s) = SP THEN LStrip(Tail(s)) ELSE s

RECURSIVE RStrip(_)
RStrip(s) == IF s # <<>> /\ s[Len(s)] = SP THEN RStrip(SubSeq(s, 1, Len(s) - 1)) ELSE s

Strip(s) == RStrip(LStrip(s))

\* A JSON string literal: quote, tokens without a quote, quote.
IsJsonString(t) ==
    /\ Len(t) >= 2
    /\ t[1] = Q
    /\ t[Len(t)] = Q
    /\ \A i \in 2..(Len(t) - 1) : t[i] # Q

\* json.loads on the token text: a string literal, or an object with one
\* string-valued member; anything else is a JSONDecodeError.
json_loads(text) ==
    LET t == Strip(text) IN
    IF IsJsonString(t)
    THEN [ok |-> TRUE, value |-> PyStr(SubSeq(t, 2, Len(t) - 1))]
    ELSE IF /\ Len(t) >= 8
            /\ t[1] = "{" /\ t[Len(t)] = "}"
            /\ t[2] = Q /\ t[3] # Q /\ t[4] = Q /\ t[5] = ":"
            /\ IsJsonString(SubSeq(t, 6, Len(t) - 1))
         THEN [ok |-> TRUE,
               value |-> PyDict(t[3] :> SubSeq(t, 7, Len(t) - 2))]
         ELSE [ok |-> FALSE, value |-> PyNone]

\* str(x): a str is itself, a dict prints as its repr (starts with a brace).
str(x) ==
    IF x.type = "str" THEN x.val
    ELSE IF x.type = "dict" THEN <<"{">> \o <<"...">> \o <<"}">>
    ELSE <<"None">>

\* --------------------------------------------------- what the server does
JsonObj(k, v) == <<"{", Q, k, Q, ":", Q, v, Q, "}">>

TextBodies ==
    {<<s>> : s \in Statuses \cup {"UNKNOWN"}} \cup {<<SP, "CONFIRMED", SP>>}

JsonBodies ==
    {JsonObj("tx_status", s) : s \in Statuses \cup {"UNKNOWN"}}
        \cup {JsonObj("tx_hash", "abc123"), <<Q, "DNE", Q>>, <<Q, SP, "PENDING", Q>>}
        \cup {<<"PENDING">>, <<"{", Q, "tx_status", Q>>}

ErrorCodes == {400, 404, 429, 500, 503}

Http(code, ctype, text) ==
    [kind |-> "HTTP", code |-> code, ctype |-> ctype, text |-> text]

\* URLError: the connection could not be made (refused, DNS).
\* ReadError: the connection broke or timed out while the response was read;
\* urllib raises it as a plain OSError, not wrapped in URLError.
Responses ==
    {[kind |-> k, code |-> 0, ctype |-> "", text |-> <<>>] : k \in {"URLError", "ReadError"}}
        \cup {Http(c, "text/plain", <<"error">>) : c \in ErrorCodes}
        \cup {Http(200, "text/plain", b) : b \in TextBodies}
        \cup {Http(200, "application/json", b) : b \in JsonBodies}

\* ------------------------------------------------------------ _make_request
Outcome(exc, detail, value) == [exc |-> exc, detail |-> detail, value |-> value]

make_request(resp) ==
    IF resp.kind = "ReadError"
    THEN Outcome("Exception", "OSError", PyNone)
    ELSE IF resp.kind = "URLError"
    THEN Outcome("TransactionError", "Network error", PyNone)
    ELSE IF ~(200 <= resp.code /\ resp.code < 300)
    THEN IF 400 <= resp.code /\ resp.code < 500 /\ resp.code # 429
         THEN Outcome("TransactionError", "HTTP status", PyNone)
         ELSE Outcome("TransactionError", "HTTP status", PyNone)
    ELSE IF resp.ctype = "application/json"
    THEN LET j == json_loads(resp.text) IN
         IF j.ok THEN Outcome("none", "", j.value)
         ELSE Outcome("Exception", "JSONDecodeError", PyNone)
    ELSE Outcome("none", "", PyStr(Strip(resp.text)))

\* ---------------------------------------------------- _request_with_retries
\* What the loop body does with the outcome of attempt number `attempt`.
\* Variant: an error raised by _make_request is retried like any exception.
retry_decision_retry_all(out, attempt, retries) ==
    IF out.exc = "none" THEN "return"
    ELSE IF attempt >= retries THEN "break"
    ELSE "sleep"

\* Variant: the loop runs one iteration more.
retry_decision_extra_attempt(out, attempt, retries) ==
    IF out.exc = "none" THEN "return"
    ELSE IF out.exc = "TransactionError" THEN "reraise"
    ELSE IF attempt > retries THEN "break"
    ELSE "sleep"

retry_decision(out, attempt, retries) ==
    IF out.exc = "none" THEN "return"
    ELSE IF out.exc = "TransactionError" THEN "reraise"
    ELSE IF attempt >= retries THEN "break"
    ELSE "sleep"

backoff_delay(factor, attempt) == factor * (2 ^ attempt)

\* ------------------------------------------------------------- check_status
\* Variant: the enum lookup lets any one-word string through.
TransactionStatus_lenient(s) ==
    IF Len(s) = 1
    THEN [ok |-> TRUE, status |-> s[1]]
    ELSE [ok |-> FALSE, status |-> "ValueError"]

TransactionStatus(s) ==
    IF Len(s) = 1 /\ s[1] \in Statuses
    THEN [ok |-> TRUE, status |-> s[1]]
    ELSE [ok |-> FALSE, status |-> "ValueError"]

\* Variant: the status is looked up under the key "status".
status_value_other_key(response) ==
    IF response.type = "dict" /\ "status" \in DOMAIN response.items
    THEN PyStr(response.items["status"])
    ELSE response

status_value(response) ==
    IF response.type = "dict" /\ "tx_status" \in DOMAIN response.items
    THEN PyStr(response.items["tx_status"])
    ELSE response

check_status_parse(response) == TransactionStatus(Strip(str(status_value(response))))

\* -------------------------------------------------------- wait_for_finality
\* Variant: the callback fires on every observation.
on_status_called_always(status, last, callback) == callback

on_status_called(status, last, callback) == status # last /\ callback

\* Variant: the deadline test is strict.
wait_decision_strict(status, elapsed, maxwait) ==
    IF status \in terminal_states THEN "return"
    ELSE IF elapsed > maxwait THEN "raise"
    ELSE "sleep"

\* Variant: the deadline is tested before the status.
wait_decision_deadline_first(status, elapsed, maxwait) ==
    IF elapsed >= maxwait THEN "raise"
    ELSE IF status \in terminal_states THEN "return"
    ELSE "sleep"

wait_decision(status, elapsed, maxwait) ==
    IF status \in terminal_states THEN "return"
    ELSE IF elapsed >= maxwait THEN "raise"
    ELSE "sleep"

\* ------------------------------------------------------------------- state
VARIABLES
    max_retries, backoff_factor,   \* client configuration
    clock,                         \* time.monotonic()
    op,                            \* the public method the caller invoked
    rpc, attempt, last_error, rres,\* _request_with_retries frame
    history, sleeps,               \* its attempts (response classes) and backoff sleeps
    cpc, cres,                     \* check_status frame
    wpc, start, poll_interval, max_wait, on_status, last_status, wres,
    callbacks, observed,           \* on_status invocations, statuses seen by the loop
    queries, pollSleeps, queryStart,
    pendingAtDeadline,             \* elapsed was >= max_wait while last_status was PENDING
    request, sent,                 \* arguments of _request_with_retries, requests it has sent
    tx_hash,                       \* argument of check_status / wait_for_finality
    bpc, payload, bres,            \* broadcast_transaction frame
    opc, ores,                     \* broadcast_and_wait frame
    positions, roof_length, chickens,   \* max_chickens_under_roof: arguments, <<result>>
    sequence, verdict,                  \* evaluate_day: argument, result
    running, parked                \* the thread that runs, the frame of the thread that waits

rvars == <<rpc, attempt, last_error, rres, history, sleeps, request, sent>>
cvars == <<cpc, cres>>
wparams == <<start, poll_interval, max_wait, on_status>>
wvars == <<wpc, last_status, wres, callbacks, observed, pollSleeps>>
config == <<max_retries, backoff_factor>>
bvars == <<bpc, payload, bres>>
ovars == <<opc, ores>>
puzzles == <<positions, roof_length, chickens, sequence, verdict>>
threads == <<running, parked>>
vars == <<config, clock, op, rvars, cvars, wparams, wvars, queries, queryStart, pendingAtDeadline,
          tx_hash, bvars, ovars, puzzles, threads>>

NoResult == [exc |-> "none", detail |-> "", value |-> PyNone]

\* The arguments method, url and body of one _request_with_retries call.
Request(method, url, body) == [method |-> method, url |-> url, body |-> body]
NoRequest == Request("", <<>>, PyNone)

\* f"{self.status_endpoint}/{tx_hash}" and self.broadcast_endpoint.
status_url(hash) == <<"check", "/">> \o hash
broadcast_endpoint == <<"broadcast">>

\* A Python number: sign, integer part and fractional part (in tenths).
\* int(x) truncates toward zero.
Num(whole, frac) == [neg |-> FALSE, whole |-> whole, frac |-> frac]
int(x) == IF x.neg THEN 0 - x.whole ELSE x.whole

\* The request payload of broadcast_transaction (line 88).
make_payload(symbol, price, timestamp) ==
    [symbol |-> symbol, price |-> int(price), timestamp |-> int(timestamp)]

NoPayload == [symbol |-> "", price |-> 0, timestamp |-> 0]
BroadcastResult(hash, body) == [exc |-> "none", detail |-> "", tx_hash |-> hash, payload |-> body]
BroadcastError(exc, detail) == [exc |-> exc, detail |-> detail, tx_hash |-> <<>>, payload |-> NoPayload]
NoBroadcast == BroadcastResult(<<>>, NoPayload)
NoPair == [exc |-> "none", detail |-> "", result |-> NoBroadcast, status |-> "None"]

\* The test broadcast_transaction applies to the response (line 95), negated.
broadcast_response_ok(response) ==
    response.type = "dict" /\ "tx_hash" \in DOMAIN response.items

\* The class of a response, as the error taxonomy names it.
Classify(resp) ==
    IF resp.kind # "HTTP" THEN resp.kind
    ELSE IF resp.code = 429 THEN "HTTP429"
    ELSE IF resp.code >= 500 THEN "HTTP5xx"
    ELSE IF resp.code >= 400 THEN "HTTP4xx"
    ELSE IF resp.ctype = "application/json" /\ ~json_loads(resp.text).ok THEN "Malformed"
    ELSE "OK"

\* No call of max_chickens_under_roof or evaluate_day has been made.
NotRun == "not run"
NoPuzzle ==
    /\ positions = <<>> /\ roof_length = 0 /\ chickens = <<>>
    /\ sequence = <<>> /\ verdict = NotRun

ClientInit ==
    /\ max_retries \in 0..MaxRetriesBound
    /\ backoff_factor \in 1..MaxBackoff
    /\ clock = 1   \* time.monotonic() has an arbitrary origin
    /\ op = "none"
    /\ rpc = "idle" /\ attempt = 0 /\ last_error = "None" /\ rres = NoResult
    /\ history = <<>> /\ sleeps = <<>>
    /\ cpc = "idle" /\ cres = "None"
    /\ wpc = "idle" /\ start = 0 /\ poll_interval = 1 /\ max_wait = 0
    /\ on_status = FALSE /\ last_status = "None" /\ wres = "None"
    /\ callbacks = <<>> /\ observed = <<>>
    /\ queries = 0 /\ pollSleeps = 0 /\ queryStart = 0
    /\ pendingAtDeadline = FALSE
    /\ request = NoRequest /\ sent = {}
    /\ tx_hash = <<>>
    /\ bpc = "idle" /\ payload = NoPayload /\ bres = NoBroadcast
    /\ opc = "idle" /\ ores = NoPair

\* The locals of the operation a thread runs, with the time the thread has
\* last read or will read next; the client's attributes are not among them.
Frame ==
    [clock |-> clock, op |-> op, rpc |-> rpc, attempt |-> attempt,
     last_error |-> last_error, rres |-> rres, history |-> history,
     sleeps |-> sleeps, request |-> request, sent |-> sent, cpc |-> cpc,
     cres |-> cres, wpc |-> wpc, start |-> start,
     poll_interval |-> poll_interval, max_wait |-> max_wait,
     on_status |-> on_status, last_status |-> last_status, wres |-> wres,
     callbacks |-> callbacks, observed |-> observed, queries |-> queries,
     pollSleeps |-> pollSleeps, queryStart |-> queryStart,
     pendingAtDeadline |-> pendingAtDeadline, tx_hash |-> tx_hash, bpc |-> bpc,
     payload |-> payload, bres |-> bres, opc |-> opc, ores |-> ores]

\* One thread runs; the other one has not called the client.
OneThread == running = 1 /\ parked = Frame

Init == ClientInit /\ NoPuzzle /\ OneThread

\* Entering _request_with_retries (line 199-201).
EnterRequest(req) ==
    /\ rpc' = "attempt" /\ attempt' = 0 /\ last_error' = "None" /\ rres' = NoResult
    /\ history' = <<>> /\ sleeps' = <<>>
    /\ request' = req /\ sent' = {}

\* check_status has handed its result to wait_for_finality: the locals of
\* the finished _request_with_retries call are gone.
LeaveRequest ==
    /\ rpc' = "idle" /\ attempt' = 0 /\ last_error' = "None" /\ rres' = NoResult
    /\ history' = <<>> /\ sleeps' = <<>>
    /\ request' = NoRequest /\ sent' = {}

\* Entering check_status (line 104).
EnterCheckStatus(hash) ==
    /\ EnterRequest(Request("GET", status_url(hash), PyNone))
    /\ cpc' = "request" /\ cres' = "None"
    /\ queries' = queries + 1
    /\ queryStart' = clock'

\* elapsed reached max_wait while the wait is running and the last
\* observed status is PENDING.
DeadlineSeen(now, last) ==
    pendingAtDeadline \/ (op = "wait_for_finality" /\ last = "PENDING" /\ now - start >= max_wait)

\* The caller invokes client.check_status(tx_hash).
Call_check_status ==
    /\ op = "none"
    /\ op' = "check_status"
    /\ clock' = clock
    /\ tx_hash' = <<"abc123">>
    /\ EnterCheckStatus(tx_hash')
    /\ UNCHANGED <<threads, puzzles, config, wparams, wvars, pendingAtDeadline, bvars, ovars>>

\* The caller invokes client.wait_for_finality(tx_hash, ...): lines 143-153.
Call_wait_for_finality(interval, maxwait, callback) ==
    /\ op = "none"
    /\ op' = "wait_for_finality"
    /\ clock' = clock
    /\ start' = clock
    /\ poll_interval' = interval /\ max_wait' = maxwait /\ on_status' = callback
    /\ last_status' = "None"
    /\ wpc' = "check"
    /\ tx_hash' = <<"abc123">>
    /\ EnterCheckStatus(tx_hash')
    /\ UNCHANGED <<threads, puzzles, config, wres, callbacks, observed, pollSleeps, pendingAtDeadline, bvars, ovars>>

\* One iteration of the retry loop: one _make_request call that takes dur
\* ticks and meets the response resp (lines 201-210).
request_attempt(resp, dur) ==
    /\ rpc = "attempt"
    /\ clock' = clock + dur
    /\ history' = Append(history, Classify(resp))
    /\ LET out == make_request(resp)
           d == retry_decision(out, attempt, max_retries) IN
       /\ rpc' = CASE d = "return" -> "returned"
                   [] d = "sleep" -> "backoff"
                   [] OTHER -> "raised"
       /\ last_error' = IF out.exc = "Exception" THEN out.detail ELSE last_error
       /\ rres' = CASE d = "return" -> [exc |-> "none", detail |-> "", value |-> out.value]
                    [] d = "reraise" -> [exc |-> "TransactionError", detail |-> out.detail, value |-> PyNone]
                    [] d = "break" -> [exc |-> "TransactionError", detail |-> "Request failed", value |-> PyNone]
                    [] OTHER -> rres
    /\ sent' = sent \cup {request}
    /\ pendingAtDeadline' = DeadlineSeen(clock', last_status)
    /\ UNCHANGED <<threads, puzzles, config, op, attempt, sleeps, request, cvars, wparams, wvars, queries, queryStart,
                   tx_hash, bvars, ovars>>

\* time.sleep(backoff_factor * 2**attempt), then the next iteration (line 211).
backoff_sleep ==
    /\ rpc = "backoff"
    /\ clock' = clock + backoff_delay(backoff_factor, attempt)
    /\ sleeps' = Append(sleeps, backoff_delay(backoff_factor, attempt))
    /\ attempt' = attempt + 1
    /\ rpc' = "attempt"
    /\ pendingAtDeadline' = DeadlineSeen(clock', last_status)
    /\ UNCHANGED <<threads, puzzles, config, op, last_error, rres, history, request, sent, cvars, wparams, wvars,
                   queries, queryStart, tx_hash, bvars, ovars>>

\* check_status after _request_with_retries has returned or raised
\* (lines 110-118).
check_status_finish ==
    /\ cpc = "request"
    /\ rpc \in {"returned", "raised"}
    /\ IF rpc = "raised"
       THEN cpc' = "raised" /\ cres' = rres.detail
       ELSE LET p == check_status_parse(rres.value) IN
            IF p.ok THEN cpc' = "returned" /\ cres' = p.status
            ELSE cpc' = "raised" /\ cres' = "Unknown transaction status"
    /\ UNCHANGED <<threads, puzzles, config, clock, op, rvars, wparams, wvars, queries, queryStart, pendingAtDeadline,
                   tx_hash, bvars, ovars>>

\* The loop body of wait_for_finality after check_status (lines 154-166);
\* an error of check_status propagates.
wait_loop ==
    /\ wpc = "check"
    /\ cpc \in {"returned", "raised"}
    /\ IF cpc = "raised"
       THEN /\ wpc' = "raise" /\ wres' = cres
            /\ UNCHANGED <<last_status, callbacks, observed, pendingAtDeadline>>
       ELSE LET d == wait_decision(cres, clock - start, max_wait) IN
            /\ observed' = Append(observed, cres)
            /\ callbacks' = IF on_status_called(cres, last_status, on_status)
                            THEN Append(callbacks, cres) ELSE callbacks
            /\ last_status' = cres
            /\ wpc' = d
            /\ wres' = CASE d = "return" -> cres
                         [] d = "raise" -> "TransactionTimeout"
                         [] OTHER -> wres
            /\ pendingAtDeadline' = DeadlineSeen(clock, cres)
    /\ LeaveRequest
    /\ UNCHANGED <<threads, puzzles, config, clock, op, cvars, wparams, pollSleeps, queries, queryStart,
                   tx_hash, bvars, ovars>>

\* time.sleep(poll_interval), then the next check_status (lines 167, 153).
poll_sleep ==
    /\ wpc = "sleep"
    /\ clock' = clock + poll_interval
    /\ pollSleeps' = pollSleeps + 1
    /\ wpc' = "check"
    /\ EnterCheckStatus(tx_hash)
    /\ pendingAtDeadline' = DeadlineSeen(clock', last_status)
    /\ UNCHANGED <<threads, puzzles, config, op, wparams, last_status, wres, callbacks, observed,
                   tx_hash, bvars, ovars>>

Step ==
    \/ \E resp \in Responses, dur \in 0..MaxAttemptDur : request_attempt(resp, dur)
    \/ backoff_sleep
    \/ check_status_finish
    \/ wait_loop
    \/ poll_sleep

Next ==
    \/ Call_check_status
    \/ \E interval \in 1..MaxPoll, maxwait \in 0..MaxWaitBound, callback \in BOOLEAN :
          Call_wait_for_finality(interval, maxwait, callback)
    \/ Step

Spec == Init /\ [][Next]_vars

\* Every attempt ends within the per-request timeout and every sleep ends,
\* so a running operation always takes its next step.
FairSpec == Spec /\ WF_vars(Step)

\* The responses with which a status query returns PENDING.
PendingResponses ==
    {r \in Responses :
        /\ make_request(r).exc = "none"
        /\ check_status_parse(make_request(r).value) = [ok |-> TRUE, status |-> "PENDING"]}

\* A server that answers every status query with PENDING: an attempt gets a
\* PENDING response or, while a retry is left, breaks while being read.
pending_attempt ==
    \E dur \in 0..MaxAttemptDur :
        \/ \E resp \in PendingResponses : request_attempt(resp, dur)
        \/ \E resp \in {r \in Responses : r.kind = "ReadError"} :
              attempt < max_retries /\ request_attempt(resp, dur)

PendingStep ==
    \/ pending_attempt
    \/ backoff_sleep
    \/ check_status_finish
    \/ wait_loop
    \/ poll_sleep

PendingNext ==
    \/ \E interval \in 1..MaxPoll, maxwait \in 0..MaxWaitBound, callback \in BOOLEAN :
          Call_wait_for_finality(interval, maxwait, callback)
    \/ PendingStep

PendingSpec == Init /\ [][PendingNext]_vars /\ WF_vars(PendingStep)

\* ------------------------------------------------ broadcast_transaction
\* What the node may answer to a submission: everything it may answer to a
\* query, an object with another hash, and an object whose hash is empty.
SubmitResponses ==
    Responses \cup {Http(200, "application/json", JsonObj("tx_hash", "def456")),
                    Http(200, "application/json", <<"{", Q, "tx_hash", Q, ":", Q, Q, "}">>)}

\* One answer of the node per outcome of a status query.
QueryResponses ==
    {r \in Responses : r.kind = "ReadError" \/ r.code = 404}
        \cup {Http(200, "text/plain", <<"PENDING">>), Http(200, "text/plain", <<"CONFIRMED">>),
              Http(200, "application/json", JsonObj("tx_status", "FAILED"))}

Symbols == {"ETH"}
Prices == {Num(4500, 0), Num(4500, 5)}
Timestamps == {Num(1700000000, 0)}

\* Lines 88-93: the payload is built and handed to _request_with_retries.
EnterBroadcast(symbol, price, timestamp) ==
    /\ clock' = clock
    /\ payload' = make_payload(symbol, price, timestamp)
    /\ bpc' = "request" /\ bres' = NoBroadcast
    /\ EnterRequest(Request("POST", broadcast_endpoint, payload'))

\* The caller invokes client.broadcast_transaction(symbol, price, timestamp).
Call_broadcast_transaction(symbol, price, timestamp) ==
    /\ op = "none"
    /\ op' = "broadcast_transaction"
    /\ EnterBroadcast(symbol, price, timestamp)
    /\ UNCHANGED <<threads, puzzles, config, cvars, wparams, wvars, queries, queryStart, pendingAtDeadline,
                   tx_hash, ovars>>

\* Variant: the result carries str(response) instead of str(response["tx_hash"]).
broadcast_finish_whole_response ==
    /\ bpc = "request"
    /\ rpc \in {"returned", "raised"}
    /\ IF rpc = "raised"
       THEN bpc' = "raised" /\ bres' = BroadcastError(rres.exc, rres.detail)
       ELSE IF ~broadcast_response_ok(rres.value)
       THEN bpc' = "raised"
            /\ bres' = BroadcastError("TransactionError", "Malformed broadcast response")
       ELSE bpc' = "returned"
            /\ bres' = BroadcastResult(str(rres.value), payload)
    /\ UNCHANGED <<threads, puzzles, config, clock, op, rvars, cvars, wparams, wvars, queries, queryStart,
                   pendingAtDeadline, tx_hash, payload, ovars>>

\* broadcast_transaction after _request_with_retries has returned or raised
\* (lines 95-98).
broadcast_finish ==
    /\ bpc = "request"
    /\ rpc \in {"returned", "raised"}
    /\ IF rpc = "raised"
       THEN bpc' = "raised" /\ bres' = BroadcastError(rres.exc, rres.detail)
       ELSE IF ~broadcast_response_ok(rres.value)
       THEN bpc' = "raised"
            /\ bres' = BroadcastError("TransactionError", "Malformed broadcast response")
       ELSE bpc' = "returned"
            /\ bres' = BroadcastResult(str(PyStr(rres.value.items["tx_hash"])), payload)
    /\ UNCHANGED <<threads, puzzles, config, clock, op, rvars, cvars, wparams, wvars, queries, queryStart,
                   pendingAtDeadline, tx_hash, payload, ovars>>

\* ---------------------------------------------------- broadcast_and_wait
\* The caller invokes client.broadcast_and_wait(...): line 182.
Call_broadcast_and_wait(symbol, price, timestamp, interval, maxwait, callback) ==
    /\ op = "none"
    /\ op' = "broadcast_and_wait"
    /\ opc' = "broadcast" /\ ores' = NoPair
    /\ poll_interval' = interval /\ max_wait' = maxwait /\ on_status' = callback
    /\ EnterBroadcast(symbol, price, timestamp)
    /\ UNCHANGED <<threads, puzzles, config, cvars, start, wvars, queries, queryStart, pendingAtDeadline, tx_hash>>

\* Variant: the poll stage starts whatever the broadcast stage did, with the
\* hash the node usually answers.
broadcast_and_wait_poll_any ==
    /\ opc = "broadcast" /\ bpc \in {"returned", "raised"}
    /\ opc' = "wait"
    /\ tx_hash' = <<"abc123">>
    /\ clock' = clock
    /\ start' = clock
    /\ last_status' = "None"
    /\ wpc' = "check"
    /\ EnterCheckStatus(tx_hash')
    /\ UNCHANGED <<threads, puzzles, config, op, poll_interval, max_wait, on_status, wres, callbacks, observed,
                   pollSleeps, pendingAtDeadline, bvars, ores>>

\* broadcast_transaction has returned: wait_for_finality(result.tx_hash, ...)
\* is entered (lines 183-188, 143-153).
broadcast_and_wait_poll ==
    /\ opc = "broadcast" /\ bpc = "returned"
    /\ opc' = "wait"
    /\ tx_hash' = bres.tx_hash
    /\ clock' = clock
    /\ start' = clock
    /\ last_status' = "None"
    /\ wpc' = "check"
    /\ EnterCheckStatus(tx_hash')
    /\ UNCHANGED <<threads, puzzles, config, op, poll_interval, max_wait, on_status, wres, callbacks, observed,
                   pollSleeps, pendingAtDeadline, bvars, ores>>

\* broadcast_and_wait ends: an exception of either stage propagates, or the
\* pair (result, status) is returned (line 189).
broadcast_and_wait_finish ==
    /\ \/ opc = "broadcast" /\ bpc = "raised"
          /\ opc' = "raised"
          /\ ores' = [exc |-> bres.exc, detail |-> bres.detail, result |-> NoBroadcast, status |-> "None"]
       \/ opc = "wait" /\ wpc = "raise"
          /\ opc' = "raised"
          /\ ores' = [exc |-> IF wres = "TransactionTimeout" THEN wres ELSE "TransactionError",
                      detail |-> wres, result |-> NoBroadcast, status |-> "None"]
       \/ opc = "wait" /\ wpc = "return"
          /\ opc' = "returned"
          /\ ores' = [exc |-> "none", detail |-> "", result |-> bres, status |-> wres]
    /\ UNCHANGED <<threads, puzzles, config, clock, op, rvars, cvars, wparams, wvars, queries, queryStart,
                   pendingAtDeadline, tx_hash, bvars>>

\* A client constructed with max_retries 0 or 1 and the smallest backoff.
FewRetriesInit == Init /\ max_retries <= 1 /\ backoff_factor = 1

\* An attempt ends at once or takes the longest time.
Durations == {0, MaxAttemptDur}

BroadcastStep ==
    \/ \E resp \in SubmitResponses, dur \in Durations :
          request.method = "POST" /\ request_attempt(resp, dur)
    \/ \E resp \in QueryResponses, dur \in Durations :
          request.method = "GET" /\ request_attempt(resp, dur)
    \/ backoff_sleep
    \/ broadcast_finish
    \/ broadcast_and_wait_poll
    \/ broadcast_and_wait_finish
    \/ check_status_finish
    \/ wait_loop
    \/ poll_sleep

BroadcastNext ==
    \/ \E symbol \in Symbols, price \in Prices, timestamp \in Timestamps :
          Call_broadcast_transaction(symbol, price, timestamp)
    \/ \E symbol \in Symbols, price \in Prices, timestamp \in Timestamps,
          interval \in {1, MaxPoll}, maxwait \in {0, MaxWaitBound}, callback \in BOOLEAN :
          Call_broadcast_and_wait(symbol, price, timestamp, interval, maxwait, callback)
    \/ BroadcastStep

BroadcastSpec == FewRetriesInit /\ [][BroadcastNext]_vars

\* ------------------------------------------------- one wait_for_finality
\* A wait_for_finality of a client with few retries, against a node that
\* gives one answer per outcome of a status query.
PollStep ==
    \/ \E resp \in QueryResponses, dur \in 0..MaxAttemptDur : request_attempt(resp, dur)
    \/ backoff_sleep
    \/ check_status_finish
    \/ wait_loop
    \/ poll_sleep

PollNext ==
    \/ \E interval \in 1..MaxPoll, maxwait \in 0..MaxWaitBound, callback \in BOOLEAN :
          Call_wait_for_finality(interval, maxwait, callback)
    \/ PollStep

\* Every attempt ends within the per-request timeout and every sleep ends.
PollSpec == FewRetriesInit /\ [][PollNext]_vars /\ WF_vars(PollStep)

\* ------------------------------------------------ max_chickens_under_roof
Max(a, b) == IF a >= b THEN a ELSE b

\* Variant: the window is shrunk only when it is longer than the roof.
RECURSIVE shrink_window_closed(_, _, _, _)
shrink_window_closed(list, left, pos, roof) ==
    IF pos - list[left] > roof
    THEN shrink_window_closed(list, left + 1, pos, roof)
    ELSE left

\* The while loop of line 35-36: the new left end of the window.
RECURSIVE shrink_window(_, _, _, _)
shrink_window(list, left, pos, roof) ==
    IF pos - list[left] >= roof
    THEN shrink_window(list, left + 1, pos, roof)
    ELSE left

\* The for loop of lines 33-37 from index right on (indices start at 1).
RECURSIVE slide(_, _, _, _, _)
slide(list, roof, right, left, best) ==
    IF right > Len(list) THEN best
    ELSE LET l == shrink_window(list, left, list[right], roof) IN
         slide(list, roof, right + 1, l, Max(best, right - l + 1))

max_chickens_under_roof(list, roof) ==
    IF roof <= 0 THEN 0 ELSE slide(list, roof, 1, 1, 0)

PositionValues == (0 - 1)..MaxPosition
SortedLists ==
    {l \in UNION {[1..n -> PositionValues] : n \in 0..MaxChickens} :
        \A i \in 1..(Len(l) - 1) : l[i] <= l[i + 1]}
RoofLengths == (0 - 1)..MaxRoof

\* The caller holds a sorted list of positions and a roof length.
ChickenInit ==
    /\ ClientInit /\ max_retries = 0 /\ backoff_factor = 1
    /\ positions \in SortedLists /\ roof_length \in RoofLengths /\ chickens = <<>>
    /\ sequence = <<>> /\ verdict = NotRun
    /\ OneThread

\* The caller invokes max_chickens_under_roof(positions, roof_length).
Call_max_chickens_under_roof ==
    /\ chickens = <<>>
    /\ chickens' = <<max_chickens_under_roof(positions, roof_length)>>
    /\ UNCHANGED <<threads, config, clock, op, rvars, cvars, wparams, wvars, queries, queryStart,
                   pendingAtDeadline, tx_hash, bvars, ovars, positions, roof_length,
                   sequence, verdict>>

ChickenNext == Call_max_chickens_under_roof

ChickenSpec == ChickenInit /\ [][ChickenNext]_vars

\* ------------------------------------------------------------ evaluate_day
GOOD == "Good boy"
BAD == "Bad boy"

\* The characters a day sequence is written with: the two events, their
\* lower-case forms, a blank and a letter that is no event.
Characters == {"S", "R", "s", "r", SP, "X"}
upper(ch) == CASE ch = "s" -> "S" [] ch = "r" -> "R" [] OTHER -> ch

\* ''.join(sequence.split()).upper(): whitespace is dropped, letters are
\* upper-cased (line 33).
RECURSIVE normalize(_)
normalize(text) ==
    IF text = <<>> THEN <<>>
    ELSE IF Head(text) = SP THEN normalize(Tail(text))
    ELSE <<upper(Head(text))>> \o normalize(Tail(text))

\* str.count (line 34).
RECURSIVE count(_, _)
count(text, ch) ==
    IF text = <<>> THEN 0
    ELSE (IF Head(text) = ch THEN 1 ELSE 0) + count(Tail(text), ch)

\* Variant: a revenge with nothing outstanding is always allowed.
RECURSIVE scan_day_any_surplus(_, _, _, _)
scan_day_any_surplus(text, shots_remaining, pending, seen_shot) ==
    IF text = <<>> THEN (IF pending = 0 THEN GOOD ELSE BAD)
    ELSE IF Head(text) = "S"
    THEN scan_day_any_surplus(Tail(text), shots_remaining - 1, pending + 1, TRUE)
    ELSE IF Head(text) = "R"
    THEN IF ~seen_shot THEN BAD
         ELSE IF pending > 0
         THEN scan_day_any_surplus(Tail(text), shots_remaining, pending - 1, seen_shot)
         ELSE scan_day_any_surplus(Tail(text), shots_remaining, pending, seen_shot)
    ELSE BAD

\* The for loop of lines 38-54 over the rest of the normalized text, and the
\* final test of line 56.
RECURSIVE scan_day(_, _, _, _)
scan_day(text, shots_remaining, pending, seen_shot) ==
    IF text = <<>> THEN (IF pending = 0 THEN GOOD ELSE BAD)
    ELSE IF Head(text) = "S"
    THEN scan_day(Tail(text), shots_remaining - 1, pending + 1, TRUE)
    ELSE IF Head(text) = "R"
    THEN IF ~seen_shot THEN BAD
         ELSE IF pending > 0 THEN scan_day(Tail(text), shots_remaining, pending - 1, seen_shot)
         ELSE IF shots_remaining > 0 THEN BAD
         ELSE scan_day(Tail(text), shots_remaining, pending, seen_shot)
    ELSE BAD

evaluate_day(text) ==
    IF text = <<>> THEN BAD
    ELSE LET normalized == normalize(text) IN
         scan_day(normalized, count(normalized, "S"), 0, FALSE)

Days == UNION {[1..n -> Characters] : n \in 0..MaxEvents}

\* The caller holds the text of one day.
DayInit ==
    /\ ClientInit /\ max_retries = 0 /\ backoff_factor = 1
    /\ positions = <<>> /\ roof_length = 0 /\ chickens = <<>>
    /\ sequence \in Days /\ verdict = NotRun
    /\ OneThread

\* The caller invokes evaluate_day(sequence).
Call_evaluate_day ==
    /\ verdict = NotRun
    /\ verdict' = evaluate_day(sequence)
    /\ UNCHANGED <<threads, config, clock, op, rvars, cvars, wparams, wvars, queries, queryStart,
                   pendingAtDeadline, tx_hash, bvars, ovars, positions, roof_length,
                   chickens, sequence>>

DayNext == Call_evaluate_day

DaySpec == DayInit /\ [][DayNext]_vars

\* ------------------------------------- two operations on one shared client
\* Variant: the last observed status is kept in an attribute of the client,
\* which the operations share.
thread_switch_shared_last_status ==
    /\ running' = 3 - running
    /\ parked' = Frame
    /\ clock' = parked.clock /\ op' = parked.op /\ rpc' = parked.rpc
    /\ attempt' = parked.attempt /\ last_error' = parked.last_error
    /\ rres' = parked.rres /\ history' = parked.history
    /\ sleeps' = parked.sleeps /\ request' = parked.request
    /\ sent' = parked.sent /\ cpc' = parked.cpc /\ cres' = parked.cres
    /\ wpc' = parked.wpc /\ start' = parked.start
    /\ poll_interval' = parked.poll_interval /\ max_wait' = parked.max_wait
    /\ on_status' = parked.on_status /\ last_status' = last_status
    /\ wres' = parked.wres /\ callbacks' = parked.callbacks
    /\ observed' = parked.observed /\ queries' = parked.queries
    /\ pollSleeps' = parked.pollSleeps /\ queryStart' = parked.queryStart
    /\ pendingAtDeadline' = parked.pendingAtDeadline
    /\ tx_hash' = parked.tx_hash /\ bpc' = parked.bpc
    /\ payload' = parked.payload /\ bres' = parked.bres /\ opc' = parked.opc
    /\ ores' = parked.ores
    /\ UNCHANGED <<config, puzzles>>

\* The interpreter suspends the running thread and resumes the other one:
\* the locals of the suspended operation are kept as they are.
thread_switch ==
    /\ running' = 3 - running
    /\ parked' = Frame
    /\ clock' = parked.clock /\ op' = parked.op /\ rpc' = parked.rpc
    /\ attempt' = parked.attempt /\ last_error' = parked.last_error
    /\ rres' = parked.rres /\ history' = parked.history
    /\ sleeps' = parked.sleeps /\ request' = parked.request
    /\ sent' = parked.sent /\ cpc' = parked.cpc /\ cres' = parked.cres
    /\ wpc' = parked.wpc /\ start' = parked.start
    /\ poll_interval' = parked.poll_interval /\ max_wait' = parked.max_wait
    /\ on_status' = parked.on_status /\ last_status' = parked.last_status
    /\ wres' = parked.wres /\ callbacks' = parked.callbacks
    /\ observed' = parked.observed /\ queries' = parked.queries
    /\ pollSleeps' = parked.pollSleeps /\ queryStart' = parked.queryStart
    /\ pendingAtDeadline' = parked.pendingAtDeadline
    /\ tx_hash' = parked.tx_hash /\ bpc' = parked.bpc
    /\ payload' = parked.payload /\ bres' = parked.bres /\ opc' = parked.opc
    /\ ores' = parked.ores
    /\ UNCHANGED <<config, puzzles>>

\* What the node answers to the status queries of the two operations.
SharedResponses ==
    {r \in Responses : r.kind = "ReadError"}
        \cup {Http(200, "text/plain", <<"PENDING">>), Http(200, "text/plain", <<"CONFIRMED">>)}

ThreadStep ==
    \/ \E resp \in SharedResponses, dur \in {0, 1} : request_attempt(resp, dur)
    \/ backoff_sleep
    \/ check_status_finish
    \/ wait_loop
    \/ poll_sleep

\* Each of two threads calls wait_for_finality once on the same client; the
\* interpreter may switch between them before any step.
ThreadsNext ==
    \/ \E maxwait \in {0, 1} : Call_wait_for_finality(1, maxwait, TRUE)
    \/ ThreadStep
    \/ thread_switch

ThreadsSpec == FewRetriesInit /\ [][ThreadsNext]_vars

TypeOK ==
    /\ running \in {1, 2}
    /\ bpc \in {"idle", "request", "returned", "raised"}
    /\ opc \in {"idle", "broadcast", "wait", "returned", "raised"}
    /\ rpc \in {"idle", "attempt", "backoff", "returned", "raised"}
    /\ cpc \in {"idle", "request", "returned", "raised"}
    /\ wpc \in {"idle", "check", "sleep", "return", "raise"}
    /\ attempt \in 0..(MaxRetriesBound + 1)
    /\ Len(history) <= max_retries + 1

\* ================================================================ properties
attempts == Len(history)

\* The failures the retry policy is documented to retry.
Retryable(c) == c \in {"URLError", "ReadError", "HTTP5xx", "HTTP429"}

AllRetryable(h) == \A i \in 1..Len(h) : Retryable(h[i])

Waiting == op = "wait_for_finality"

WaitDone == wpc \in {"return", "raise"}

RECURSIVE Collapse(_)
Collapse(s) ==
    IF Len(s) <= 1 THEN s
    ELSE IF s[1] = s[2] THEN Collapse(Tail(s))
    ELSE <<s[1]>> \o Collapse(Tail(s))

\* C1: after f <= max_retries retryable failures (transport failure, HTTP
\* 5xx, 429) the executor goes on to the next attempt, so such failures are
\* not surfaced; a call that returns made (number of failures) + 1 attempts,
\* the last of which succeeded.
C1_RetryableFailuresNotSurfaced ==
    /\ (rpc = "raised" /\ AllRetryable(history)) => attempts > max_retries
    /\ rpc = "returned" =>
          /\ history[attempts] = "OK"
          /\ attempts = Len(sleeps) + 1
          /\ AllRetryable(SubSeq(history, 1, attempts - 1))

\* C2: when every attempt fails retryably the executor makes exactly
\* max_retries + 1 attempts, sleeps backoff_factor * 2^attempt after each
\* attempt but the last, and only then raises its error.
C2_ExhaustedRetries ==
    (rpc = "raised" /\ AllRetryable(history)) =>
        /\ attempts = max_retries + 1
        /\ sleeps = [i \in 1..max_retries |-> backoff_factor * (2 ^ (i - 1))]
        /\ rres.exc = "TransactionError"

\* C3 as stated: a 4xx response other than 429 on any attempt means that the
\* call made exactly one attempt in total and never slept.
C3_ClientErrorSingleAttempt ==
    \A i \in 1..attempts :
        history[i] = "HTTP4xx" => rpc = "raised" /\ attempts = 1 /\ sleeps = <<>>

\* C3 (amended): a 4xx response other than 429 is raised at once: the
\* attempt that received it is the last one, no backoff sleep follows it,
\* and it is the only attempt when it is the first.
C3_ClientErrorTerminal ==
    \A i \in 1..attempts :
        history[i] = "HTTP4xx" =>
            /\ i = attempts
            /\ rpc = "raised"
            /\ rres.exc = "TransactionError" /\ rres.detail = "HTTP status"
            /\ Len(sleeps) = i - 1
            /\ attempt = i - 1

C3_Witness ==
    /\ rpc = "raised" /\ history = <<"HTTP4xx">> /\ sleeps = <<>>
    /\ max_retries >= 1

\* C4: a 2xx response with an unparseable body is a terminal error: no
\* further attempt and no backoff sleep follows that attempt.
C4_MalformedTerminal ==
    \A i \in 1..attempts :
        history[i] = "Malformed" =>
            /\ i = attempts
            /\ rpc = "raised"
            /\ Len(sleeps) = i - 1

\* C5: once a status query of wait_for_finality has returned CONFIRMED,
\* FAILED or DNE, the operation returns exactly that status without a poll
\* sleep or a further query in between.
C5_TerminalReturnsImmediately ==
    (Waiting /\ cpc = "returned" /\ cres \in {"CONFIRMED", "FAILED", "DNE"}) =>
        /\ wpc \in {"check", "return"}
        /\ pollSleeps = queries - 1
        /\ wpc = "return" =>
              /\ wres = cres
              /\ Len(observed) = queries
              /\ observed[queries] = cres

C5_Witness ==
    /\ wpc = "return" /\ wres = "DNE" /\ cres = "DNE"
    /\ queries = 3 /\ pollSleeps = 2

C7_TimeoutIffDeadlineWhilePending ==
    (WaitDone /\ cpc = "returned") =>
        (wres = "TransactionTimeout" <=> pendingAtDeadline)

\* C7 (amended): the wait raises TransactionTimeout exactly when a status
\* query returns PENDING and the elapsed time measured right after that
\* query is >= max_wait; a PENDING seen before the deadline leads to a sleep.
C7_TimeoutIffPendingAtCheck ==
    /\ WaitDone =>
          (wres = "TransactionTimeout" <=>
              (cpc = "returned" /\ cres = "PENDING" /\ clock - start >= max_wait))
    /\ wpc = "sleep" =>
          (cpc = "returned" /\ cres = "PENDING" /\ clock - start < max_wait)

C7_Witness ==
    /\ wpc = "raise" /\ wres = "TransactionTimeout"
    /\ queries >= 2 /\ last_status = "PENDING"

\* C8 as stated, on the runs in which only the poll sleeps take time: for a
\* positive max_wait the wait returns or raises no later than max_wait after
\* it was called.
C8_EndsWithinMaxWait ==
    (WaitDone /\ max_wait > 0 /\ clock - start = pollSleeps * poll_interval) =>
        clock - start <= max_wait

\* C8 (amended): the deadline is measured from the start of the call and is
\* not reset or extended: no poll sleep starts at or after max_wait, so every
\* status query starts before max_wait + poll_interval and the wait ends no
\* later than max_wait + poll_interval + the duration of its last query.
C8_DeadlineFromStart ==
    Waiting =>
        /\ wpc = "sleep" => clock - start < max_wait
        /\ queryStart - start < max_wait + poll_interval
        /\ queryStart - start = 0 \/ queryStart - start - poll_interval < max_wait
        /\ WaitDone =>
              clock - start <= max_wait + poll_interval + (clock - queryStart)

C8_Witness ==
    /\ wpc = "raise" /\ wres = "TransactionTimeout"
    /\ clock - start > max_wait
    /\ pollSleeps >= 1

\* C9: when every status query returns PENDING the wait never returns a
\* status; it ends (it always ends) by raising TransactionTimeout, not
\* earlier than max_wait after its start, with last status PENDING and one
\* on_status call; with max_wait 3, poll_interval 1 and instantaneous
\* queries it raises at elapsed time 3.
AllPending ==
    /\ Waiting
    /\ Len(observed) = queries
    /\ \A i \in 1..Len(observed) : observed[i] = "PENDING"

C9_Safety ==
    AllPending =>
        /\ wpc # "return"
        /\ last_status = "PENDING"
        /\ on_status => callbacks = <<"PENDING">>
        /\ wpc = "raise" =>
              /\ wres = "TransactionTimeout"
              /\ clock - start >= max_wait
              /\ (max_wait = 3 /\ poll_interval = 1
                     /\ clock - start = pollSleeps * poll_interval)
                  => clock - start = 3

StatusString == Strip(str(status_value(rres.value)))

C10_UnknownStatusTerminal ==
    /\ (cpc \in {"returned", "raised"} /\ rpc = "returned"
          /\ StatusString \notin {<<s>> : s \in Statuses}) =>
            (cpc = "raised" /\ cres = "Unknown transaction status")
    /\ cpc = "returned" => cres \in Statuses
    /\ (Waiting /\ cpc = "raised" /\ cres = "Unknown transaction status") =>
          /\ wpc \in {"check", "raise"}
          /\ wpc = "raise" => wres = "Unknown transaction status"
          /\ Len(observed) = queries - 1
          /\ pollSleeps = queries - 1
          /\ \A i \in 1..Len(callbacks) : callbacks[i] \in Statuses
          /\ Len(callbacks) <= Len(observed)

C10_Witness ==
    /\ wpc = "check" /\ cpc = "raised" /\ cres = "Unknown transaction status"
    /\ rpc = "returned" /\ StatusString = <<"UNKNOWN">>
    /\ queries = 2 /\ pollSleeps = 1

\* The submission has been answered and broadcast_transaction has judged
\* the answer; the executor's frame still holds the response.
SubmitAnswered ==
    bpc \in {"returned", "raised"} /\ rpc = "returned" /\ request.method = "POST"

\* The transaction hash carried by a response, empty when it carries none.
HashOf(response) ==
    IF response.type = "dict" /\ "tx_hash" \in DOMAIN response.items
    THEN response.items["tx_hash"] ELSE <<>>

\* C11: broadcast_transaction returns a BroadcastResult only when the
\* response to the submission is a structured object with a non-empty
\* transaction hash; when the response is not an object, or its hash is
\* absent or empty, it raises 'Malformed broadcast response' and no further
\* submission is attempted.
C11_ResultOnlyForNonEmptyHash ==
    SubmitAnswered =>
        IF HashOf(rres.value) # <<>>
        THEN bpc = "returned" /\ bres.tx_hash = HashOf(rres.value)
        ELSE bpc = "raised" /\ bres.detail = "Malformed broadcast response"

\* C12: broadcast_and_wait broadcasts first and then polls with exactly the
\* hash the broadcast returned: no status query is made before the broadcast
\* has succeeded, none when it raised, neither stage is run again, an error of
\* either stage reaches the caller as raised, and then no pair is returned.
C12_StagesInOrder ==
    op = "broadcast_and_wait" =>
        /\ queries > 0 =>
              /\ bpc = "returned" /\ opc # "broadcast"
              /\ tx_hash = bres.tx_hash
              /\ \A r \in sent \cup {request} :
                    r = NoRequest \/ r = Request("GET", status_url(bres.tx_hash), PyNone)
        /\ bpc # "returned" => queries = 0 /\ wpc = "idle" /\ observed = <<>>
        /\ opc = "raised" =>
              /\ ores.result = NoBroadcast /\ ores.status = "None"
              /\ \/ bpc = "raised" /\ ores.exc = bres.exc /\ ores.detail = bres.detail
                 \/ bpc = "returned" /\ wpc = "raise" /\ ores.detail = wres
        /\ opc = "returned" =>
              /\ bpc = "returned" /\ wpc = "return"
              /\ ores.exc = "none" /\ ores.result = bres /\ ores.status = wres

\* Once a stage has ended it is not entered again, and nothing follows the
\* end of broadcast_and_wait.
C12_NoStageTwice ==
    /\ bpc \in {"returned", "raised"} =>
          /\ bpc' = bpc /\ bres' = bres
          /\ request'.method = "POST" => UNCHANGED rvars
    /\ wpc \in {"return", "raise"} => wpc' = wpc /\ wres' = wres /\ queries' = queries
    /\ opc \notin {"returned", "raised"}

C12_BroadcastThenPoll == []C12_StagesInOrder /\ [][C12_NoStageTwice]_vars

\* broadcast_and_wait returned the pair after polling with a hash other than
\* the one the standalone calls use, and another run ended with the poll
\* stage's error.
C12_Witness ==
    /\ opc = "returned" /\ ores.result.tx_hash = <<"def456">> /\ tx_hash = <<"def456">>
    /\ queries > 1 /\ ores.status = "CONFIRMED"

\* C14: a successful broadcast_transaction returns the hash of the response
\* and exactly the payload {symbol, price, timestamp} that was sent, and every
\* attempt of the submission, retries included, sent that payload; for
\* ETH / 4500 / 1700000000 and the answer abc123 the result is (abc123,
\* {ETH, 4500, 1700000000}).
C14_ResultEchoesPayload ==
    /\ request.method = "POST" =>
          /\ request = Request("POST", broadcast_endpoint, payload)
          /\ sent \subseteq {request}
          /\ payload = [symbol |-> "ETH", price |-> 4500, timestamp |-> 1700000000]
          /\ history # <<>> => sent = {request}
    /\ bpc = "returned" =>
          /\ bres.exc = "none" /\ bres.payload = payload
          /\ SubmitAnswered => bres.tx_hash = rres.value.items["tx_hash"]

\* The submission succeeded on a retry with hash abc123.
C14_Witness ==
    /\ op = "broadcast_transaction" /\ bpc = "returned" /\ attempts >= 2
    /\ bres = BroadcastResult(<<"abc123">>,
                              [symbol |-> "ETH", price |-> 4500, timestamp |-> 1700000000])

\* check_status has judged a response that the executor returned.
QueryAnswered == cpc \in {"returned", "raised"} /\ rpc = "returned"

\* The response is the structured form of status S: an object whose status
\* field is S.
ObjectForm(response, S) ==
    response.type = "dict" /\ DOMAIN response.items = {"tx_status"}
        /\ response.items["tx_status"] = <<S>>

\* The response is the bare form of status S: the string S.
BareForm(response, S) == response = PyStr(<<S>>)

\* C15: for every status S of PENDING, CONFIRMED, FAILED and DNE, check_status
\* returns S when the response is an object whose status field is S and when
\* it is the bare string S, so that wait_for_finality, which sees only the
\* returned status, cannot tell the two forms apart.
C15_BothFormsGiveStatus ==
    QueryAnswered =>
        \A S \in Statuses :
            ObjectForm(rres.value, S) \/ BareForm(rres.value, S) =>
                /\ cpc = "returned" /\ cres = S
                /\ check_status_parse(PyDict("tx_status" :> <<S>>)) = check_status_parse(PyStr(<<S>>))

\* A wait that has already observed a status gets DNE in the object form.
C15_Witness ==
    /\ Waiting /\ QueryAnswered /\ observed # <<>>
    /\ ObjectForm(rres.value, "DNE") /\ cres = "DNE"

RECURSIVE SumSeq(_)
SumSeq(s) == IF s = <<>> THEN 0 ELSE Head(s) + SumSeq(Tail(s))

\* C17: in every execution of _request_with_retries the number of attempts
\* is at least 1 and at most max_retries + 1, a backoff sleep happens only
\* between two attempts, never before the first or after the last, and the
\* time slept in total is at most backoff_factor * (2^max_retries - 1).
C17_AttemptsAndBackoffBounded ==
    /\ attempts <= max_retries + 1
    /\ Len(sleeps) <= max_retries
    /\ \A i \in 1..Len(sleeps) : sleeps[i] = backoff_factor * (2 ^ (i - 1))
    /\ SumSeq(sleeps) <= backoff_factor * ((2 ^ max_retries) - 1)
    /\ rpc = "attempt" => Len(sleeps) = attempts
    /\ rpc \in {"backoff", "returned", "raised"} => attempts >= 1 /\ Len(sleeps) = attempts - 1
    /\ rpc = "backoff" => attempts <= max_retries

\* Every attempt failed: max_retries + 1 attempts, the full backoff slept.
C17_Witness ==
    /\ rpc = "raised" /\ max_retries = MaxRetriesBound /\ attempts = max_retries + 1
    /\ SumSeq(sleeps) = backoff_factor * ((2 ^ max_retries) - 1)

Last(s) == s[Len(s)]

\* C18: in wait_for_finality a terminal status wins over the deadline: at
\* least one status query is always made, also for max_wait = 0; a query
\* that returned CONFIRMED, FAILED or DNE makes the wait return that status
\* also when the elapsed time has reached max_wait; TransactionTimeout is
\* raised only directly after a query that returned PENDING.
C18_TerminalBeforeDeadline ==
    Waiting =>
        /\ queries >= 1
        /\ WaitDone => observed # <<>> \/ wres \notin Statuses \cup {"TransactionTimeout"}
        /\ observed # <<>> /\ Last(observed) \in {"CONFIRMED", "FAILED", "DNE"} =>
              wpc = "return" /\ wres = Last(observed)
        /\ wres = "TransactionTimeout" =>
              /\ wpc = "raise" /\ cpc = "returned" /\ cres = "PENDING"
              /\ Last(observed) = "PENDING"

\* A terminal status that arrived after the deadline was returned.
C18_Witness ==
    /\ Waiting /\ wpc = "return" /\ wres = "FAILED"
    /\ max_wait > 0 /\ clock - start > max_wait /\ queries >= 2

Ceil(a, b) == (a + b - 1) \div b

\* C19: for positive poll_interval and max_wait, one wait_for_finality
\* sleeps exactly poll_interval between any two consecutive status queries
\* and makes at most ceil(max_wait / poll_interval) + 1 status queries,
\* whatever the responses and however long each query takes; hence it ends
\* whenever each query ends.
C19_QueryBound ==
    Waiting /\ max_wait > 0 =>
        /\ queries <= Ceil(max_wait, poll_interval) + 1
        /\ queries = pollSleeps + 1
        /\ queryStart - start >= pollSleeps * poll_interval

\* A further query is made only after one sleep of poll_interval, and a
\* sleep is always followed by a query.
C19_SleepBetweenQueries ==
    Waiting =>
        /\ queries' # queries =>
              /\ wpc = "sleep" /\ queries' = queries + 1 /\ pollSleeps' = pollSleeps + 1
              /\ clock' = clock + poll_interval /\ queryStart' = clock'
        /\ wpc = "sleep" => queries' = queries + 1
        /\ pollSleeps' # pollSleeps => queries' # queries

C19_BoundedPolling ==
    /\ []C19_QueryBound
    /\ [][C19_SleepBetweenQueries]_vars
    /\ (Waiting ~> WaitDone)

\* The wait made the largest number of queries the bound allows.
C19_Witness ==
    /\ Waiting /\ WaitDone /\ poll_interval = 2 /\ max_wait = 3
    /\ queries = Ceil(max_wait, poll_interval) + 1

\* The number of positions under a roof that starts at p: those in [p, p + roof).
Covered(list, p, roof) ==
    Cardinality({i \in 1..Len(list) : p <= list[i] /\ list[i] < p + roof})

\* The largest number of positions any roof covers; every start point that
\* covers a position lies between the least position minus the roof length
\* and the greatest position.
BestCover(list, roof) ==
    LET starts == ((0 - 1) - MaxRoof)..MaxPosition IN
    CHOOSE n \in 0..Len(list) :
        /\ \E p \in starts : Covered(list, p, roof) = n
        /\ \A p \in starts : Covered(list, p, roof) <= n

\* C16: for every sorted list of integer positions (duplicates and negative
\* values included) and every integer roof_length, max_chickens_under_roof
\* returns the largest number of positions in an interval [p, p + roof_length);
\* it returns 0 when roof_length <= 0 or the list is empty, and two positions
\* exactly roof_length apart are never both counted.
C16_MaxCoverOfHalfOpenRoof ==
    chickens # <<>> =>
        /\ chickens = <<BestCover(positions, roof_length)>>
        /\ roof_length <= 0 \/ positions = <<>> => chickens = <<0>>
        /\ Len(positions) = 2 /\ roof_length > 0 /\ positions[2] - positions[1] = roof_length
              => chickens = <<1>>

\* Duplicates and a negative position, and a position exactly one roof
\* length after the first: the roof holds the three positions before it.
C16_Witness ==
    /\ positions = <<0 - 1, 0, 0, 1>> /\ roof_length = 2 /\ chickens = <<3>>

\* The shots not yet revenged after the first n events: a shot adds one, a
\* revenge removes one if there is one.
RECURSIVE Outstanding(_, _)
Outstanding(events, n) ==
    IF n = 0 THEN 0
    ELSE IF events[n] = "S" THEN Outstanding(events, n - 1) + 1
    ELSE Max(Outstanding(events, n - 1) - 1, 0)

OnlyEvents(events) == \A i \in 1..Len(events) : events[i] \in {"S", "R"}

\* The scan of the module documentation accepts: every R has an S before it,
\* an R that finds nothing outstanding has no S after it, and nothing is
\* outstanding at the end.
Accepts(events) ==
    /\ \A i \in 1..Len(events) :
          events[i] = "R" =>
              /\ \E j \in 1..(i - 1) : events[j] = "S"
              /\ Outstanding(events, i - 1) = 0 =>
                    ~ \E j \in (i + 1)..Len(events) : events[j] = "S"
    /\ Outstanding(events, Len(events)) = 0

\* C20: for every sequence of S and R evaluate_day returns 'Good boy'
\* exactly when the documented scan accepts it, and 'Bad boy' otherwise and
\* for every sequence that holds a symbol other than S or R.
C20_VerdictIsDocumentedScan ==
    verdict # NotRun =>
        IF OnlyEvents(sequence)
        THEN verdict = (IF Accepts(sequence) THEN GOOD ELSE BAD)
        ELSE verdict = BAD

\* C20, amended: the empty sequence gets 'Bad boy'; any other sequence is
\* judged after its whitespace is removed and its letters are upper-cased:
\* 'Good boy' exactly when only S and R remain and the documented scan
\* accepts them, 'Bad boy' otherwise.
C20_VerdictOfNormalizedDay ==
    verdict # NotRun =>
        IF sequence = <<>> THEN verdict = BAD
        ELSE IF OnlyEvents(normalize(sequence))
        THEN verdict = (IF Accepts(normalize(sequence)) THEN GOOD ELSE BAD)
        ELSE verdict = BAD

\* A day written with a blank and a lower-case letter, with a surplus
\* revenge after the last shot, is a good day.
C20_Witness ==
    sequence = <<"S", SP, "r", "R">> /\ verdict = GOOD

\* What a wait_for_finality has returned, raised and reported follows from
\* what that operation itself has observed and from its own clock.
OutcomeIsOwn ==
    Waiting =>
        /\ callbacks = (IF on_status THEN Collapse(observed) ELSE <<>>)
        /\ last_status = (IF observed = <<>> THEN "None" ELSE Last(observed))
        /\ \A i \in 1..(Len(observed) - 1) : observed[i] = "PENDING"
        /\ wpc = "return" => wres = Last(observed) /\ wres \in terminal_states
        /\ wres = "TransactionTimeout" =>
              wpc = "raise" /\ Last(observed) = "PENDING" /\ clock - start >= max_wait
        /\ wpc = "sleep" => Last(observed) = "PENDING" /\ clock - start < max_wait
        /\ attempt = Len(sleeps) /\ attempts <= max_retries + 1
        /\ queries = pollSleeps + 1

\* A step of the running operation leaves the locals of the other operation
\* alone, and a switch hands each operation its own locals back unchanged.
OnlyOwnSteps ==
    /\ running' = running => parked' = parked
    /\ running' # running => parked' = Frame /\ Frame' = parked

\* C13: operations that run concurrently on one shared client do not
\* interfere: no step changes the client's configuration, the last observed
\* status and the attempt counter of an operation are changed by that
\* operation's own steps only, and so what each operation returns, raises and
\* reports to on_status is what it yields from its own responses alone.
C13_OperationsDoNotInterfere ==
    /\ [][config' = config]_vars
    /\ [][OnlyOwnSteps]_vars
    /\ []OutcomeIsOwn

\* Two interleaved waits ended differently: the running one returned
\* CONFIRMED after a PENDING, the other one timed out on its first PENDING.
C13_Witness ==
    /\ Waiting /\ wpc = "return" /\ wres = "CONFIRMED"
    /\ observed = <<"PENDING", "CONFIRMED">> /\ callbacks = observed
    /\ parked.op = "wait_for_finality" /\ parked.wres = "TransactionTimeout"
    /\ parked.observed = <<"PENDING">> /\ parked.max_wait = 0 /\ max_wait = 1

====
